---- MODULE Spec2Model ----
(***************************************************************************)
(* A model of the prescriptix backend functions                            *)
(* (supabase/functions/{transcribe,analyze-insights,nearby-hospitals}/     *)
(* main.py and dev_server.py).                                             *)
(*                                                                         *)
(* Byte strings and text strings of the Python code are TLA+ strings; the  *)
(* operators below give Python's find / rfind / slicing / split / strip /  *)
(* startswith with Python's 0-based indices, so that the offsets of the    *)
(* code (+ 10, + 4, > 3) appear unchanged.  One character, BadByte, stands *)
(* for the byte 0xFF, which no UTF-8 text contains.                        *)
(***************************************************************************)
EXTENDS Integers, Sequences, FiniteSets, TLC

VARIABLES env, request, pc, response, outbound, obs

vars == <<env, request, pc, response, outbound, obs>>

None == "<none>"

(***************************************************************************)
(* Python str / bytes primitives                                           *)
(***************************************************************************)

\* The byte 0xFF: bytes.decode('utf-8') raises UnicodeDecodeError on it.
BadByte == "~"

\* The 0-based indices >= start at which sub occurs in s.
Occurrences(s, sub, start) ==
    { i \in start..(Len(s) - Len(sub)) : SubSeq(s, i + 1, i + Len(sub)) = sub }

\* bytes.find(sub, start): the lowest index >= start at which sub occurs, or -1.
Find(s, sub, start) ==
    LET hits == Occurrences(s, sub, start)
    IN  IF hits = {} THEN -1 ELSE CHOOSE i \in hits : \A j \in hits : i <= j

\* A search from the left where the code searches from the right.
FindFirst(s, sub) == Find(s, sub, 0)

\* bytes.rfind(sub): the highest index at which sub occurs, or -1.
RFind(s, sub) ==
    LET hits == Occurrences(s, sub, 0)
    IN  IF hits = {} THEN -1 ELSE CHOOSE i \in hits : \A j \in hits : i >= j

\* sub in s
Contains(s, sub) == Find(s, sub, 0) # -1

\* s.startswith(prefix)
StartsWith(s, prefix) ==
    /\ Len(prefix) <= Len(s)
    /\ SubSeq(s, 1, Len(prefix)) = prefix

\* An index of a slice, clamped as Python clamps it (negative: from the end).
ClampIndex(s, i) ==
    IF i < 0 THEN (IF Len(s) + i < 0 THEN 0 ELSE Len(s) + i)
    ELSE IF i > Len(s) THEN Len(s) ELSE i

\* s[a:b]
Slice(s, a, b) ==
    LET lo == ClampIndex(s, a)
        hi == ClampIndex(s, b)
    IN  IF lo >= hi THEN "" ELSE SubSeq(s, lo + 1, hi)

RECURSIVE Split(_, _)
\* s.split(sep): the pieces between the occurrences of sep, left to right.
Split(s, sep) ==
    LET i == Find(s, sep, 0)
    IN  IF i = -1 THEN <<s>>
        ELSE <<Slice(s, 0, i)>> \o Split(Slice(s, i + Len(sep), Len(s)), sep)

Whitespace == {" ", "\t", "\n", "\r"}

RECURSIVE LStrip(_)
LStrip(s) ==
    IF Len(s) > 0 /\ SubSeq(s, 1, 1) \in Whitespace
    THEN LStrip(Slice(s, 1, Len(s))) ELSE s

RECURSIVE RStrip(_)
RStrip(s) ==
    IF Len(s) > 0 /\ SubSeq(s, Len(s), Len(s)) \in Whitespace
    THEN RStrip(Slice(s, 0, Len(s) - 1)) ELSE s

\* s.strip()
Strip(s) == RStrip(LStrip(s))

\* Whether bytes.decode('utf-8') succeeds.
Utf8Valid(s) == ~Contains(s, BadByte)

(***************************************************************************)
(* transcribe/main.py                                                      *)
(***************************************************************************)

\* CORS_HEADERS, as the set of (name, value) pairs a response carries.
CORS_HEADERS ==
    { <<"Access-Control-Allow-Origin", "*">>,
      <<"Access-Control-Allow-Headers",
        "authorization, x-client-info, apikey, content-type, x-supabase-client-platform, x-supabase-client-platform-version, x-supabase-client-runtime, x-supabase-client-runtime-version">> }

WHISPER_URL ==
    "https://avani-mlwjnpc4-eastus2.cognitiveservices.azure.com/openai/deployments/whisper/audio/translations?api-version=2024-06-01"

\* MultiPartForm.__init__: the boundary, rand being os.urandom(16).hex().
FormBoundary(rand) == "----WebKitFormBoundary" \o rand

\* MultiPartForm.add_file: data is the buffer so far; the result is the buffer after.
AddFile(data, boundary, fieldname, filename, file_data, content_type) ==
    data \o "--" \o boundary \o "\r\n"
         \o "Content-Disposition: form-data; name=\"" \o fieldname
         \o "\"; filename=\"" \o filename \o "\"\r\n"
         \o "Content-Type: " \o content_type \o "\r\n\r\n"
         \o file_data
         \o "\r\n"

\* MultiPartForm.get_data
GetData(data, boundary) == data \o "--" \o boundary \o "--\r\n"

\* MultiPartForm.get_content_type
GetContentType(boundary) == "multipart/form-data; boundary=" \o boundary

\* A response sent without the loop over CORS_HEADERS.
SendJsonWithoutCors(status_code, data) ==
    [status  |-> status_code,
     headers |-> { <<"Content-Type", "application/json">> },
     body    |-> data]

\* _send_json_response: one status line, the CORS headers, Content-Type, the JSON body.
SendJsonResponse(status_code, data) ==
    [status  |-> status_code,
     headers |-> CORS_HEADERS \cup { <<"Content-Type", "application/json">> },
     body    |-> data]

\* _send_error
SendError(status_code, error_message) ==
    SendJsonResponse(status_code, [error |-> error_message])

\* do_OPTIONS of the three function handlers: 200, the CORS headers, no body
\* (body <<>>; a JSON body is a record).
FunctionOptions ==
    [status |-> 200, headers |-> CORS_HEADERS, body |-> <<>>]

\* Python's truth test of a str / bytes / None value: not v.
Falsy(v) == v \in {None, ""}

\* A handler without the check of line 60: any Content-Type passes.
AnyContentType(content_type) == TRUE

\* content_type.startswith('multipart/form-data')
IsMultipart(content_type) == StartsWith(content_type, "multipart/form-data")

RECURSIVE BoundaryLoop(_, _)
\* for part in content_type_parts: if 'boundary=' in part: ...; break
BoundaryLoop(content_type_parts, i) ==
    IF i > Len(content_type_parts) THEN None
    ELSE IF Contains(content_type_parts[i], "boundary=")
         THEN Strip(Split(content_type_parts[i], "=")[2])
         ELSE BoundaryLoop(content_type_parts, i + 1)

\* The boundary of a Content-Type header, None when no parameter holds one.
ParseBoundary(content_type) == BoundaryLoop(Split(content_type, ";"), 1)

\* if b'Content-Disposition' in part and b'name="file"' in part
PartMatches(part) ==
    Contains(part, "Content-Disposition") /\ Contains(part, "name=\"file\"")

\* A range check that forgets the separator: file_start > 3 left out.
RangeUnchecked(file_start, file_end) == file_end > file_start

\* if file_start > 3 and file_end > file_start
PayloadRangeOk(file_start, file_end) == file_start > 3 /\ file_end > file_start

\* An extraction that never looks for a filename: the default is always kept.
ExtractDefaultName(part) ==
    LET file_start == Find(part, "\r\n\r\n", 0) + 4
        file_end   == RFind(part, "\r\n")
    IN  [raised     |-> FALSE,
         filename   |-> "audio.webm",
         audio_file |-> IF PayloadRangeOk(file_start, file_end)
                        THEN Slice(part, file_start, file_end)
                        ELSE None]

\* The body of the loop for a matching part.  raised: filename bytes that are not
\* UTF-8 make decode raise UnicodeDecodeError.  filename starts as "audio.webm".
ExtractPart(part) ==
    LET hasName        == Contains(part, "filename=\"")
        filename_start == Find(part, "filename=\"", 0) + 10
        filename_end   == Find(part, "\"", filename_start)
        nameBytes      == Slice(part, filename_start, filename_end)
        file_start     == Find(part, "\r\n\r\n", 0) + 4
        file_end       == RFind(part, "\r\n")
    IN  IF hasName /\ ~Utf8Valid(nameBytes)
        THEN [raised |-> TRUE, filename |-> "audio.webm", audio_file |-> None]
        ELSE [raised     |-> FALSE,
              filename   |-> IF hasName THEN nameBytes ELSE "audio.webm",
              audio_file |-> IF PayloadRangeOk(file_start, file_end)
                             THEN Slice(part, file_start, file_end)
                             ELSE None]

RECURSIVE ScanLast(_, _)
\* A scan with the break left out, the last matching part deciding.
ScanLast(parts, i) ==
    IF i > Len(parts)
    THEN [selected |-> -1, raised |-> FALSE,
          filename |-> "audio.webm", audio_file |-> None]
    ELSE LET later == ScanLast(parts, i + 1)
         IN  IF later.selected # -1 \/ ~PartMatches(parts[i]) THEN later
             ELSE [selected |-> i - 1] @@ ExtractPart(parts[i])

RECURSIVE ScanParts(_, _)
\* for part in parts: the first matching part is extracted, then break.
\* selected is the 0-based index of that part in parts, -1 when none matches.
ScanParts(parts, i) ==
    IF i > Len(parts)
    THEN [selected |-> -1, raised |-> FALSE,
          filename |-> "audio.webm", audio_file |-> None]
    ELSE IF PartMatches(parts[i])
         THEN [selected |-> i - 1] @@ ExtractPart(parts[i])
         ELSE ScanParts(parts, i + 1)

\* What the handler did besides answering, as the claims observe it; upstream is
\* the outcome of its call of the third-party API, None when it made none.
Obs0 ==
    [bodyRead |-> FALSE, body |-> None, boundary |-> None, bodySplit |-> FALSE,
     selected |-> -1, filename |-> None, audio_file |-> None, upstream |-> None]

\* The call of the Whisper API and the answer built from its reply.
WhisperReply(upstream) ==
    CASE upstream = "text"       -> SendJsonResponse(200, [text |-> "hello world"])
      [] upstream = "no_text"    -> SendJsonResponse(200, [text |-> ""])
      [] upstream = "http_error" -> SendError(500, "Whisper API error [401]: denied")
      [] OTHER                   -> SendError(500, "<urlopen error>")

Rejected(resp, o) == [done |-> TRUE, responses |-> <<resp>>, obs |-> o]

\* Handler.do_POST of transcribe up to the check of audio_file: either the request
\* is answered (done), or filename and audio_file are ready to be forwarded.
TranscribeParse(e, req) ==
    IF Falsy(e.AZURE_WHISPER_API_KEY)
    THEN Rejected(SendError(500, "AZURE_WHISPER_API_KEY is not configured"), Obs0)
    ELSE IF ~IsMultipart(req.content_type)
    THEN Rejected(SendError(400, "Content-Type must be multipart/form-data"), Obs0)
    ELSE IF req.content_length = "bad"
    THEN Rejected(SendError(500, "invalid literal for int() with base 10"), Obs0)
    ELSE
    LET body     == Slice(req.body, 0, IF req.content_length = "absent" THEN 0 ELSE Len(req.body))
        boundary == ParseBoundary(req.content_type)
        o1       == [Obs0 EXCEPT !.bodyRead = TRUE, !.body = body, !.boundary = boundary]
    IN  IF Falsy(boundary)
        THEN Rejected(SendError(400, "No boundary found in Content-Type"), o1)
        ELSE
        LET parts == Split(body, "--" \o boundary)
            scan  == ScanParts(parts, 1)
            o2    == [o1 EXCEPT !.bodySplit = TRUE, !.selected = scan.selected,
                                !.filename = scan.filename, !.audio_file = scan.audio_file]
        IN  IF scan.raised
            THEN Rejected(SendError(500, "'utf-8' codec can't decode byte 0xff"), o2)
            ELSE IF Falsy(scan.audio_file)
            THEN Rejected(SendError(400, "No audio file provided"), o2)
            ELSE [done |-> FALSE, responses |-> <<>>, obs |-> o2]

\* The rest of do_POST: the form for the Whisper API, rand being its random
\* boundary suffix, and the request sent with it.
TranscribeForward(e, filename, audio_file, rand) ==
    LET b         == FormBoundary(rand)
        form_data == GetData(AddFile("", b, "file", filename, audio_file, "audio/webm"), b)
    IN  [url |-> WHISPER_URL, api_key |-> e.AZURE_WHISPER_API_KEY,
         content_type |-> GetContentType(b), data |-> form_data]

(***************************************************************************)
(* JSON values: an object is a record, a string a string, a number the     *)
(* string of its literal ("0.5"), an array its items.  json.loads is the   *)
(* table JsonTexts of the texts the model's peers send; any other text is  *)
(* not JSON (JSONDecodeError).                                             *)
(***************************************************************************)

NotJson == [t |-> "invalid"]
JsonObject(fields) == [t |-> "object", v |-> fields]
JsonArray(items) == [t |-> "array", v |-> [items |-> items]]

\* dict.get(key, default)
Get(d, key, default) == IF key \in DOMAIN d THEN d[key] ELSE default

UpperCase ==
    [A |-> "a", B |-> "b", C |-> "c", D |-> "d", E |-> "e", F |-> "f", G |-> "g",
     H |-> "h", I |-> "i", J |-> "j", K |-> "k", L |-> "l", M |-> "m", N |-> "n",
     O |-> "o", P |-> "p", Q |-> "q", R |-> "r", S |-> "s", T |-> "t", U |-> "u",
     V |-> "v", W |-> "w", X |-> "x", Y |-> "y", Z |-> "z"]

RECURSIVE Lower(_)
\* str.lower()
Lower(s) ==
    IF s = "" THEN ""
    ELSE LET c == SubSeq(s, 1, 1)
         IN  (IF c \in DOMAIN UpperCase THEN UpperCase[c] ELSE c)
                 \o Lower(Slice(s, 1, Len(s)))

(***************************************************************************)
(* analyze-insights/main.py                                                *)
(***************************************************************************)

\* A mock analysis that leaves the report out.
MockWithoutReport(insights_dumps) ==
    [severityScore |-> "0.3", severityTier |-> "Low"]

\* _generate_mock_response: insights_dumps is json.dumps(insights).
GenerateMockResponse(insights_dumps) ==
    LET insights_str == Lower(insights_dumps)
        high     == \E word \in {"severe", "critical", "emergency", "acute"} :
                        Contains(insights_str, word)
        moderate == \E word \in {"moderate", "concern", "abnormal"} :
                        Contains(insights_str, word)
        score    == IF high THEN "0.8" ELSE IF moderate THEN "0.5" ELSE "0.3"
        tier     == IF high THEN "High" ELSE IF moderate THEN "Moderate" ELSE "Low"
    IN  [severityScore  |-> score,
         severityTier   |-> tier,
         advisingReport |-> "Mock Analysis: Based on the provided insights, a "
            \o Lower(tier)
            \o " severity assessment has been generated. This is a test response - please configure Azure Agent credentials for actual AI-powered analysis. Always consult with a healthcare professional for medical advice."]

\* The texts an agent puts in a content field, and what json.loads makes of them.
ContentTexts ==
    [full    |-> "{\"severityScore\": 0.9, \"severityTier\": \"High\", \"advisingReport\": \"Seek care\"}",
     partial |-> "{\"severityTier\": \"Low\"}",
     list    |-> "[1, 2]",
     prose   |-> "The patient should rest."]

ContentLoads(text) ==
    CASE text = ContentTexts.full ->
            JsonObject([severityScore |-> "0.9", severityTier |-> "High",
                        advisingReport |-> "Seek care"])
      [] text = ContentTexts.partial -> JsonObject([severityTier |-> "Low"])
      [] text = ContentTexts.list -> JsonArray(<<"1", "2">>)
      [] OTHER -> NotJson

\* try: result = json.loads(content) except JSONDecodeError: {'advisingReport': content}
ContentResult(content) ==
    IF ContentLoads(content).t = "invalid"
    THEN JsonObject([advisingReport |-> content])
    ELSE ContentLoads(content)

\* "Extract the structured response": result from agent_data (a JSON object's record).
AgentResult(agent_data) ==
    LET choices == Get(agent_data, "choices", <<>>)
        content == IF choices # <<>>
                   THEN Get(Get(choices[1], "message", [none |-> ""]), "content", "")
                   ELSE ""
        r1 == IF choices # <<>> /\ content # ""
              THEN ContentResult(content) ELSE JsonObject(agent_data)
    IN  IF "content" \in DOMAIN agent_data
        THEN ContentResult(agent_data.content) ELSE r1

\* The replies of the Azure agent: an HTTP error, any other failure of the request
\* (URLError, timeout, a reply that is not JSON), or a JSON value.
AgentReplies ==
    { [t |-> "http_error"], [t |-> "exception"],
      JsonObject([severityScore |-> "0.2", severityTier |-> "Low",
                  advisingReport |-> "Rest"]),
      JsonObject([id |-> "x"]),
      JsonObject([choices |-> <<[message |-> [content |-> ContentTexts.full]]>>]),
      JsonObject([choices |-> <<[message |-> [content |-> ContentTexts.prose]]>>]),
      JsonObject([choices |-> <<[message |-> [content |-> ContentTexts.list]]>>]),
      JsonObject([content |-> ContentTexts.partial]),
      JsonObject([content |-> ContentTexts.prose]),
      JsonArray(<<"1">>) }

AnalyzeOutcome(resp, out) == [responses |-> <<resp>>, outbound |-> out]

\* A handler that falls back to the mock analysis only when told to.
UseMockFlagOnly(e) == e.USE_MOCK_MODE

\* if USE_MOCK_MODE or not azure_agent_key or not azure_agent_endpoint
UseMock(e) ==
    e.USE_MOCK_MODE \/ Falsy(e.AZURE_AGENT_KEY) \/ Falsy(e.AZURE_AGENT_ENDPOINT)

\* Handler.do_POST of analyze-insights, whole.  req.json is json.loads of the body.
AnalyzePost(e, req, reply) ==
    IF req.content_length = "bad"
    THEN AnalyzeOutcome(SendError(500, "Internal server error: invalid literal for int()"), <<>>)
    ELSE IF req.json.t = "invalid"
    THEN AnalyzeOutcome(SendError(400, "Invalid JSON in request"), <<>>)
    ELSE IF req.json.t # "object"
    THEN AnalyzeOutcome(SendError(500, "Internal server error: 'list' object has no attribute 'get'"), <<>>)
    ELSE
    LET insights == Get(req.json.v, "insights", [truthy |-> FALSE, dumps |-> "null"])
        mock     == SendJsonResponse(200, GenerateMockResponse(insights.dumps))
    IN  IF ~insights.truthy
        THEN AnalyzeOutcome(SendError(400, "Missing insights"), <<>>)
        ELSE IF UseMock(e)
        THEN AnalyzeOutcome(mock, <<>>)
        ELSE
        LET sent == <<[url |-> e.AZURE_AGENT_ENDPOINT, api_key |-> e.AZURE_AGENT_KEY,
                       content_type |-> "application/json",
                       data |-> "Analyze this insights object and return a JSON response with: severityScore (0-1), severityTier (Low/Moderate/High), and a general advisingReport. Do not provide medical advice. Here is the insights object: "
                                \o insights.dumps]>>
        IN  IF reply.t \in {"http_error", "exception"}
            THEN AnalyzeOutcome(mock, sent)
            ELSE IF reply.t # "object"
            THEN AnalyzeOutcome(SendError(500, "Internal server error: 'list' object has no attribute 'get'"), sent)
            ELSE
            LET result == AgentResult(reply.v)
            IN  IF result.t # "object"
                THEN AnalyzeOutcome(SendError(500, "Internal server error: 'list' object has no attribute 'get'"), sent)
                ELSE AnalyzeOutcome(
                        SendJsonResponse(200,
                            [severityScore  |-> Get(result.v, "severityScore", "0.5"),
                             severityTier   |-> Get(result.v, "severityTier", "Moderate"),
                             advisingReport |-> Get(result.v, "advisingReport",
                                 "Analysis complete. Please consult a healthcare professional for personalized guidance.")]),
                        sent)

(***************************************************************************)
(* nearby-hospitals/main.py                                                *)
(***************************************************************************)

\* isinstance(v, (int, float)); v is [t |-> the JSON type, s |-> str(v)].
IsNumber(v) == v.t \in {"int", "float", "bool"}

\* "Build query based on category filter"
QueryFor(category_filter) ==
    IF category_filter = "emergency" THEN "emergency room hospital"
    ELSE IF category_filter = "clinic" THEN "clinic doctor"
    ELSE "hospital"

\* One entry of the results: r is an entry of maps_data['results'], its dist a
\* whole number (round leaves it as it is).
PlaceOf(r) ==
    [name       |-> Get(Get(r, "poi", [none |-> ""]), "name", "Unknown"),
     address    |-> Get(Get(r, "address", [none |-> ""]), "freeformAddress", ""),
     distance   |-> Get(r, "dist", "null"),
     categories |-> Get(Get(r, "poi", [none |-> ""]), "categories", <<>>),
     lat        |-> Get(Get(r, "position", [none |-> ""]), "lat", "null"),
     lon        |-> Get(Get(r, "position", [none |-> ""]), "lon", "null"),
     phone      |-> Get(Get(r, "poi", [none |-> ""]), "phone", "null")]

\* The replies of Azure Maps.
MapsReplies ==
    { [t |-> "http_error"], [t |-> "exception"],
      JsonObject([summary |-> "none"]),
      JsonObject([results |-> <<[poi |-> [name |-> "General Hospital"], dist |-> "120"],
                                [address |-> [freeformAddress |-> "1 Main St"]]>>]),
      JsonArray(<<"1">>) }

\* Handler.do_POST of nearby-hospitals, whole.
NearbyPost(e, req, reply) ==
    IF Falsy(e.AZURE_MAPS_KEY)
    THEN AnalyzeOutcome(SendError(500, "AZURE_MAPS_KEY is not configured"), <<>>)
    ELSE IF req.content_length = "bad" \/ req.json.t # "object"
    THEN AnalyzeOutcome(SendError(500, "<str(e)>"), <<>>)
    ELSE
    LET lat == Get(req.json.v, "lat", [t |-> "null", s |-> "None"])
        lon == Get(req.json.v, "lon", [t |-> "null", s |-> "None"])
        category_filter == Get(req.json.v, "categoryFilter", "all")
    IN  IF ~IsNumber(lat) \/ ~IsNumber(lon)
        THEN AnalyzeOutcome(SendError(400, "lat and lon are required numbers"), <<>>)
        ELSE
        LET sent == <<[url |-> "https://atlas.microsoft.com/search/poi/json",
                       api_key |-> e.AZURE_MAPS_KEY, content_type |-> "",
                       data |-> <<QueryFor(category_filter), lat.s, lon.s>>]>>
        IN  IF reply.t = "http_error"
            THEN AnalyzeOutcome(SendError(500, "Azure Maps error [401]: denied"), sent)
            ELSE IF reply.t # "object"
            THEN AnalyzeOutcome(SendError(500, "<str(e)>"), sent)
            ELSE
            LET found == Get(reply.v, "results", <<>>)
            IN  AnalyzeOutcome(
                    SendJsonResponse(200,
                        [results |-> [i \in 1..Len(found) |-> PlaceOf(found[i])]]),
                    sent)

(***************************************************************************)
(* dev_server.py                                                           *)
(***************************************************************************)

\* RouterHandler.do_OPTIONS
RouterOptionsResponse ==
    [status  |-> 200,
     headers |-> { <<"Access-Control-Allow-Origin", "*">>,
                   <<"Access-Control-Allow-Headers",
                     "authorization, x-client-info, apikey, content-type">> },
     body    |-> <<>>]

\* RouterHandler.do_POST, a path that is no function's.
RouterNotFoundResponse ==
    [status  |-> 404,
     headers |-> { <<"Content-Type", "application/json">> },
     body    |-> [error |-> "Not found"]]

\* What the client of the development server is sent when RouterHandler.do_POST
\* hands a function's path on.  Constructing the handler (line 43) runs its
\* handle() on the connection, whose request the router has already read: with
\* bytes of the body still unread they are taken for a request line and the
\* library answers with its error page in HTTP/0.9 style, that is without a
\* status line (status 0) or headers; without, nothing is sent.
LibraryErrorPage ==
    [status  |-> 0,
     headers |-> {},
     body    |-> [html |-> "Error response: Error code: 400"]]

\* handler.do_POST() (line 44) on a handler that parsed no request: the key check
\* comes first in nearby-hospitals and transcribe, then self.headers is missing;
\* the JSON goes out without a status line as well.
HandlerWithoutRequest(fn, e) ==
    LET missing == "'Handler' object has no attribute 'headers'"
        msg == CASE fn = "nearby-hospitals" ->
                       IF Falsy(e.AZURE_MAPS_KEY)
                       THEN "AZURE_MAPS_KEY is not configured" ELSE missing
                 [] fn = "transcribe" ->
                       IF Falsy(e.AZURE_WHISPER_API_KEY)
                       THEN "AZURE_WHISPER_API_KEY is not configured" ELSE missing
                 [] OTHER -> "Internal server error: " \o missing
    IN  [status |-> 0, headers |-> {}, body |-> [error |-> msg]]

(***************************************************************************)
(* Inbound requests                                                        *)
(***************************************************************************)

\* The most parts a request body holds.
MaxParts == 2

\* The boundary the sender of a body separates its parts with.
SenderBoundary == "XYZ"

\* One part as a sender writes it between two boundary lines: the headers, a blank
\* line, the payload, CRLF.  filename None: no filename parameter.
ClientPart(name, filename, payload) ==
    "\r\nContent-Disposition: form-data; name=\"" \o name \o "\""
        \o (IF filename = None THEN ""
            ELSE "; filename=\"" \o filename \o "\"\r\nContent-Type: audio/webm")
        \o "\r\n\r\n" \o payload \o "\r\n"

WellFormedPart(name, filename, payload) ==
    [name |-> name, filename |-> filename, payload |-> payload,
     wellFormed |-> TRUE, bytes |-> ClientPart(name, filename, payload)]

RawPart(name, bytes) ==
    [name |-> name, filename |-> None, payload |-> None,
     wellFormed |-> FALSE, bytes |-> bytes]

\* The parts request bodies are made of.
PartCatalog ==
    { WellFormedPart("file", "clip.webm", "binarydata"),
      WellFormedPart("file", None, "abc"),
      WellFormedPart("file", "b.webm", "x\r\n\r\ny\r\n"),
      WellFormedPart("file", "e.webm", ""),
      WellFormedPart("file", "a" \o BadByte \o ".webm", "pq"),
      WellFormedPart("doc", "file", "DOC"),
      WellFormedPart("filename", None, "x.webm"),
      \* the headers only, no blank line, and a filename that is not UTF-8
      RawPart("file", "\r\nContent-Disposition: form-data; name=\"file\"; filename=\"" \o BadByte \o "\"\r\n"),
      \* the headers only, no blank line
      RawPart("file", "\r\nContent-Disposition: form-data; name=\"file\"; filename=\"a.webm\"\r\n"),
      \* no closing quote after the filename
      RawPart("file", "\r\nContent-Disposition: form-data; name=\"file\"; filename=\"a.webm\r\n\r\ndata\r\n"),
      \* no CRLF between the payload and the next boundary line
      RawPart("file", "\r\nContent-Disposition: form-data; name=\"file\"; filename=\"a.webm\"\r\n\r\ndata") }

PartLists == UNION { [1..n -> PartCatalog] : n \in 0..MaxParts }

RECURSIVE RenderParts(_, _)
RenderParts(parts, i) ==
    IF i > Len(parts) THEN ""
    ELSE "--" \o SenderBoundary \o parts[i].bytes \o RenderParts(parts, i + 1)

\* The body of a request: each part after a boundary line, then the closing line.
RenderBody(parts) == RenderParts(parts, 1) \o "--" \o SenderBoundary \o "--\r\n"

\* Content-Type headers of inbound requests ("": the header is absent).
ContentTypes ==
    { "",
      "application/json",
      "text/plain; x=multipart/form-data",
      "multipart/form-data",
      "multipart/form-data; boundary=",
      "multipart/form-data; boundary=XYZ",
      "multipart/form-data; charset=utf-8; boundary=XYZ",
      "multipart/form-data; xboundary=XYZ",
      "multipart/form-data; boundary=\"XYZ\"" }

\* Content-Length: the length of the body, or not a number ("absent", no header, is
\* read as 0 by the handlers).
ContentLengths == {"exact", "bad"}

NoJson == [t |-> "none"]

TranscribeRequest(ct, cl, ps) ==
    [server |-> "function", fn |-> "transcribe", method |-> "POST",
     content_type |-> ct, content_length |-> cl, parts |-> ps,
     body |-> RenderBody(ps), json |-> NoJson]

\* Every Content-Type with the bodies of at most one part, and the Content-Type of
\* the sender's boundary with every body.
TranscribeRequests ==
    { TranscribeRequest(ct, cl, ps) :
        ct \in ContentTypes, cl \in ContentLengths,
        ps \in { l \in PartLists : Len(l) <= 1 } }
    \cup
    { TranscribeRequest(GetContentType(SenderBoundary), cl, ps) :
        cl \in ContentLengths, ps \in PartLists }

\* The JSON bodies sent to analyze-insights, each with what json.loads makes of it;
\* insights is held as its truth value and its json.dumps.
InsightsBodies ==
    { <<"{oops", NotJson>>,
      <<"[1]", JsonArray(<<"1">>)>>,
      <<"{\"note\": \"x\"}", JsonObject([note |-> "x"])>>,
      <<"{\"insights\": {}}",
        JsonObject([insights |-> [truthy |-> FALSE, dumps |-> "{}"]])>>,
      <<"{\"insights\": {\"symptom\": \"mild cough\"}}",
        JsonObject([insights |-> [truthy |-> TRUE, dumps |-> "{\"symptom\": \"mild cough\"}"]])>>,
      <<"{\"insights\": {\"note\": \"Moderate swelling\"}}",
        JsonObject([insights |-> [truthy |-> TRUE, dumps |-> "{\"note\": \"Moderate swelling\"}"]])>>,
      <<"{\"insights\": {\"note\": \"SEVERE pain, moderate fever\"}}",
        JsonObject([insights |-> [truthy |-> TRUE, dumps |-> "{\"note\": \"SEVERE pain, moderate fever\"}"]])>> }

\* The JSON bodies sent to nearby-hospitals.
Num(s) == [t |-> "float", s |-> s]

LocationBodies ==
    { <<"{oops", NotJson>>,
      <<"{\"lat\": 40.7, \"lon\": -74.0}",
        JsonObject([lat |-> Num("40.7"), lon |-> Num("-74.0")])>>,
      <<"{\"lat\": 40.7, \"lon\": -74.0, \"categoryFilter\": \"emergency\"}",
        JsonObject([lat |-> Num("40.7"), lon |-> Num("-74.0"), categoryFilter |-> "emergency"])>>,
      <<"{\"lat\": 40.7, \"lon\": -74.0, \"categoryFilter\": \"clinic\"}",
        JsonObject([lat |-> Num("40.7"), lon |-> Num("-74.0"), categoryFilter |-> "clinic"])>>,
      <<"{\"lat\": 40.7, \"lon\": -74.0, \"categoryFilter\": \"pharmacy\"}",
        JsonObject([lat |-> Num("40.7"), lon |-> Num("-74.0"), categoryFilter |-> "pharmacy"])>>,
      <<"{\"lat\": \"40.7\", \"lon\": -74.0}",
        JsonObject([lat |-> [t |-> "str", s |-> "40.7"], lon |-> Num("-74.0")])>>,
      <<"{\"lat\": 40.7}", JsonObject([lat |-> Num("40.7")])>>,
      <<"{\"lat\": true, \"lon\": 1}",
        JsonObject([lat |-> [t |-> "bool", s |-> "True"], lon |-> [t |-> "int", s |-> "1"]])>> }

JsonRequests(fn, bodies) ==
    { [server |-> "function", fn |-> fn, method |-> "POST",
       content_type |-> "application/json", content_length |-> cl, parts |-> <<>>,
       body |-> b[1], json |-> b[2]] :
        cl \in ContentLengths, b \in bodies }

Functions == {"analyze-insights", "nearby-hospitals", "transcribe"}

\* Paths asked of the development server.
DevPaths == {"analyze-insights", "nearby-hospitals", "transcribe", "unknown"}

OptionsRequests ==
    { [server |-> sv, fn |-> fn, method |-> "OPTIONS", content_type |-> "",
       content_length |-> "exact", parts |-> <<>>, body |-> "", json |-> NoJson] :
        sv \in {"function"}, fn \in Functions }
    \cup
    { [server |-> "dev_server", fn |-> fn, method |-> "OPTIONS", content_type |-> "",
       content_length |-> "exact", parts |-> <<>>, body |-> "", json |-> NoJson] :
        fn \in DevPaths }

DevUnknownPosts ==
    { [server |-> "dev_server", fn |-> "unknown", method |-> "POST",
       content_type |-> "application/json", content_length |-> "exact",
       parts |-> <<>>, body |-> "{\"x\": 1}", json |-> JsonObject([x |-> "1"])] }

\* POSTs to the development server for the path of a function.
DevFunctionPosts ==
    { [server |-> "dev_server", fn |-> "analyze-insights", method |-> "POST",
       content_type |-> "application/json", content_length |-> "exact", parts |-> <<>>,
       body |-> "{\"insights\": {\"symptom\": \"mild cough\"}}",
       json |-> JsonObject([insights |-> [truthy |-> TRUE, dumps |-> "{\"symptom\": \"mild cough\"}"]])],
      [server |-> "dev_server", fn |-> "nearby-hospitals", method |-> "POST",
       content_type |-> "application/json", content_length |-> "exact", parts |-> <<>>,
       body |-> "{\"lat\": 40.7, \"lon\": -74.0}",
       json |-> JsonObject([lat |-> Num("40.7"), lon |-> Num("-74.0")])],
      [TranscribeRequest(GetContentType(SenderBoundary), "exact",
                         <<WellFormedPart("file", "clip.webm", "binarydata")>>)
          EXCEPT !.server = "dev_server"] }

Requests ==
    TranscribeRequests
        \cup JsonRequests("analyze-insights", InsightsBodies)
        \cup JsonRequests("nearby-hospitals", LocationBodies)
        \cup OptionsRequests
        \cup DevUnknownPosts
        \cup DevFunctionPosts

\* os.urandom(16).hex()
RandomHex == {"00000000000000000000000000000000", "0123456789abcdef0123456789abcdef"}

WhisperOutcomes == {"text", "no_text", "http_error", "url_error"}

NoEnv ==
    [AZURE_WHISPER_API_KEY |-> None, AZURE_MAPS_KEY |-> None,
     AZURE_AGENT_KEY |-> None, AZURE_AGENT_ENDPOINT |-> None, USE_MOCK_MODE |-> FALSE]

\* The environments of a function: the variables its handler reads, set or not
\* (the others are left unset).
Envs(fn) ==
    CASE fn = "transcribe" ->
            { [NoEnv EXCEPT !.AZURE_WHISPER_API_KEY = k] : k \in {None, "whisper-key"} }
      [] fn = "nearby-hospitals" ->
            { [NoEnv EXCEPT !.AZURE_MAPS_KEY = k] : k \in {None, "maps-key"} }
      [] fn = "analyze-insights" ->
            { [NoEnv EXCEPT !.AZURE_AGENT_KEY = k, !.AZURE_AGENT_ENDPOINT = u,
                            !.USE_MOCK_MODE = m] :
                k \in {None, "agent-key"}, u \in {None, "https://agent.example/score"},
                m \in BOOLEAN }
      [] OTHER -> {NoEnv}

(***************************************************************************)
(* The state machine: one request is received, its handler answers it.     *)
(***************************************************************************)

Init ==
    /\ request \in Requests
    /\ env \in Envs(IF request.method = "POST" THEN request.fn ELSE "none")
    /\ pc = "received"
    /\ response = <<>>
    /\ outbound = <<>>
    /\ obs = Obs0

Received(server, fn, method) ==
    /\ pc = "received"
    /\ request.server = server
    /\ request.fn = fn
    /\ request.method = method

\* do_OPTIONS of a function's Handler
DoOptions ==
    /\ \E fn \in Functions : Received("function", fn, "OPTIONS")
    /\ response' = <<FunctionOptions>>
    /\ pc' = "responded"
    /\ UNCHANGED <<env, request, outbound, obs>>

TranscribeDoPost ==
    /\ Received("function", "transcribe", "POST")
    /\ LET p == TranscribeParse(env, request)
       IN  \/ /\ p.done
              /\ obs' = p.obs
              /\ response' = p.responses
              /\ outbound' = <<>>
           \/ /\ ~p.done
              /\ \E rand \in RandomHex, upstream \in WhisperOutcomes :
                    /\ obs' = [p.obs EXCEPT !.upstream = upstream]
                    /\ outbound' = <<TranscribeForward(env, p.obs.filename,
                                                       p.obs.audio_file, rand)>>
                    /\ response' = <<WhisperReply(upstream)>>
    /\ pc' = "responded"
    /\ UNCHANGED <<env, request>>

AnalyzeDoPost ==
    /\ Received("function", "analyze-insights", "POST")
    /\ \E reply \in AgentReplies :
          LET r == AnalyzePost(env, request, reply)
          IN  /\ response' = r.responses
              /\ outbound' = r.outbound
              /\ obs' = [obs EXCEPT !.upstream = IF r.outbound = <<>> THEN None ELSE reply.t]
    /\ pc' = "responded"
    /\ UNCHANGED <<env, request>>

NearbyDoPost ==
    /\ Received("function", "nearby-hospitals", "POST")
    /\ \E reply \in MapsReplies :
          LET r == NearbyPost(env, request, reply)
          IN  /\ response' = r.responses
              /\ outbound' = r.outbound
              /\ obs' = [obs EXCEPT !.upstream = IF r.outbound = <<>> THEN None ELSE reply.t]
    /\ pc' = "responded"
    /\ UNCHANGED <<env, request>>

\* RouterHandler.do_OPTIONS
RouterDoOptions ==
    /\ \E path \in DevPaths : Received("dev_server", path, "OPTIONS")
    /\ response' = <<RouterOptionsResponse>>
    /\ pc' = "responded"
    /\ UNCHANGED <<env, request, outbound, obs>>

\* RouterHandler.do_POST for a path that is not in self.handlers
RouterNotFound ==
    /\ Received("dev_server", "unknown", "POST")
    /\ response' = <<RouterNotFoundResponse>>
    /\ pc' = "responded"
    /\ UNCHANGED <<env, request, outbound, obs>>

\* RouterHandler.do_POST for the path of a function, up to where the constructor
\* of the function's handler waits on the connection for a request line.
RouterDispatch ==
    /\ \E fn \in Functions : Received("dev_server", fn, "POST")
    /\ pc' = "dispatched"
    /\ UNCHANGED <<env, request, response, outbound, obs>>

\* The wait ends (the client sends on, or gives up and closes its side), line 44
\* runs, and the connection is closed.  leftover: bytes of the request body were
\* still unread when the handler was constructed.
RouterDispatchReturns ==
    /\ pc = "dispatched"
    /\ \E leftover \in BOOLEAN :
          response' = IF leftover
                      THEN <<LibraryErrorPage, HandlerWithoutRequest(request.fn, env)>>
                      ELSE <<>>
    /\ pc' = "closed"
    /\ UNCHANGED <<env, request, outbound, obs>>

Next ==
    \/ DoOptions
    \/ TranscribeDoPost
    \/ AnalyzeDoPost
    \/ NearbyDoPost
    \/ RouterDoOptions
    \/ RouterNotFound
    \/ RouterDispatch
    \/ RouterDispatchReturns

Spec == Init /\ [][Next]_vars

(***************************************************************************)
(* Concurrent transcribe requests.  The variables hold one value per       *)
(* request in flight; env is the environment of the process.  do_POST is   *)
(* cut where it reads the socket or calls out, and a request's steps       *)
(* interleave freely with those of the others.                             *)
(***************************************************************************)

\* The number of requests in flight.
NumRequests == 2

Threads == 1..NumRequests

ConcRequests ==
    { TranscribeRequest(GetContentType(SenderBoundary), "exact",
                        <<WellFormedPart("file", "clip.webm", "binarydata")>>),
      TranscribeRequest(GetContentType(SenderBoundary), "exact",
                        <<WellFormedPart("file", None, "abc")>>),
      TranscribeRequest(GetContentType(SenderBoundary), "exact",
                        <<WellFormedPart("filename", None, "x.webm")>>),
      TranscribeRequest("multipart/form-data", "exact",
                        <<WellFormedPart("file", "clip.webm", "binarydata")>>),
      TranscribeRequest("application/json", "exact",
                        <<WellFormedPart("file", "clip.webm", "binarydata")>>) }

\* Locals kept in one place for every request, as module globals would be.
SharedFrame(r) == 1

\* Where request r keeps boundary, body, filename and audio_file: they are locals
\* of do_POST, one set per call.
Frame(r) == r

ConcInit ==
    /\ request \in [Threads -> ConcRequests]
    /\ env \in Envs("transcribe")
    /\ pc = [r \in Threads |-> "received"]
    /\ response = [r \in Threads |-> <<>>]
    /\ outbound = [r \in Threads |-> <<>>]
    /\ obs = [r \in Threads |-> Obs0]

Answer(r, resp) ==
    /\ response' = [response EXCEPT ![r] = <<resp>>]
    /\ pc' = [pc EXCEPT ![r] = "responded"]

\* Lines 53-65: the key, the Content-Type, the Content-Length.
ConcCheck(r) ==
    /\ pc[r] = "received"
    /\ IF Falsy(env.AZURE_WHISPER_API_KEY)
       THEN Answer(r, SendError(500, "AZURE_WHISPER_API_KEY is not configured"))
       ELSE IF ~IsMultipart(request[r].content_type)
       THEN Answer(r, SendError(400, "Content-Type must be multipart/form-data"))
       ELSE IF request[r].content_length = "bad"
       THEN Answer(r, SendError(500, "invalid literal for int() with base 10"))
       ELSE pc' = [pc EXCEPT ![r] = "reading"] /\ UNCHANGED response
    /\ UNCHANGED <<env, request, outbound, obs>>

\* Lines 66-78: the body is read and the boundary taken from the Content-Type.
ConcRead(r) ==
    /\ pc[r] = "reading"
    /\ LET body     == request[r].body
           boundary == ParseBoundary(request[r].content_type)
       IN  /\ obs' = [obs EXCEPT ![Frame(r)] =
                        [@ EXCEPT !.bodyRead = TRUE, !.body = body, !.boundary = boundary]]
           /\ IF Falsy(boundary)
              THEN Answer(r, SendError(400, "No boundary found in Content-Type"))
              ELSE pc' = [pc EXCEPT ![r] = "parsing"] /\ UNCHANGED response
    /\ UNCHANGED <<env, request, outbound>>

\* Lines 81-103: the parts are scanned for the file.
ConcScan(r) ==
    /\ pc[r] = "parsing"
    /\ LET mine == obs[Frame(r)]
           scan == ScanParts(Split(mine.body, "--" \o mine.boundary), 1)
       IN  /\ obs' = [obs EXCEPT ![Frame(r)] =
                        [@ EXCEPT !.bodySplit = TRUE, !.selected = scan.selected,
                                  !.filename = scan.filename, !.audio_file = scan.audio_file]]
           /\ IF scan.raised
              THEN Answer(r, SendError(500, "'utf-8' codec can't decode byte 0xff"))
              ELSE IF Falsy(scan.audio_file)
              THEN Answer(r, SendError(400, "No audio file provided"))
              ELSE pc' = [pc EXCEPT ![r] = "forwarding"] /\ UNCHANGED response
    /\ UNCHANGED <<env, request, outbound>>

\* Lines 105-130: the form is built and sent, the reply answered.
ConcForward(r) ==
    /\ pc[r] = "forwarding"
    /\ \E rand \in RandomHex, upstream \in WhisperOutcomes :
          /\ outbound' = [outbound EXCEPT ![r] =
                            <<TranscribeForward(env, obs[Frame(r)].filename,
                                                obs[Frame(r)].audio_file, rand)>>]
          /\ obs' = [obs EXCEPT ![Frame(r)] = [@ EXCEPT !.upstream = upstream]]
          /\ Answer(r, WhisperReply(upstream))
    /\ UNCHANGED <<env, request>>

ConcNext ==
    \E r \in Threads :
        \/ ConcCheck(r)
        \/ ConcRead(r)
        \/ ConcScan(r)
        \/ ConcForward(r)

SpecConc == ConcInit /\ [][ConcNext]_vars

(***************************************************************************)
(* Properties                                                              *)
(***************************************************************************)

Responded == pc = "responded"

TranscribePosted ==
    /\ Responded
    /\ request.server = "function"
    /\ request.fn = "transcribe"
    /\ request.method = "POST"

KeySet == ~Falsy(env.AZURE_WHISPER_API_KEY)

\* r is the JSON error {"error": msg} with the given status.
ErrorIs(r, status, msg) ==
    /\ r.status = status
    /\ "error" \in DOMAIN r.body
    /\ r.body.error = msg

HasCors(r) ==
    /\ <<"Access-Control-Allow-Origin", "*">> \in r.headers
    /\ \E h \in r.headers : h[1] = "Access-Control-Allow-Headers"

Least(S) == CHOOSE i \in S : \A j \in S : i <= j
Greatest(S) == CHOOSE i \in S : \A j \in S : i >= j

\* The parts the sender named "file".
FileParts == { i \in 1..Len(request.parts) : request.parts[i].name = "file" }

\* A transcribe request the handler can parse as its sender meant it: the key is
\* configured, Content-Length is right, Content-Type is that of
\* get_content_type for the sender's boundary, every part is well formed.
WellFormedUpload ==
    /\ TranscribePosted
    /\ KeySet
    /\ request.content_length = "exact"
    /\ request.content_type = GetContentType(SenderBoundary)
    /\ \A i \in 1..Len(request.parts) : request.parts[i].wellFormed

\* The pieces the handler split the body into, and those of them that match.
Pieces == Split(obs.body, "--" \o obs.boundary)
Matching(pieces) == { i \in 1..Len(pieces) : PartMatches(pieces[i]) }

\* What the handler answers when no part matches (line 102).
FieldNotFoundAnswer ==
    TranscribeParse(env, [request EXCEPT !.parts = <<>>, !.body = RenderBody(<<>>)]).responses

\* C1: a well-formed body holding a part named "file" with filename F and a
\* payload P is extracted as exactly (F, P), and the form built from (F, P) by
\* MultiPartForm parses back to (F, P).  (Stated for a non-empty P and a UTF-8 F.)
C1_ExtractsFileExactly ==
    (/\ WellFormedUpload
     /\ FileParts # {}
     /\ request.parts[Least(FileParts)].filename # None
     /\ Utf8Valid(request.parts[Least(FileParts)].filename)
     /\ request.parts[Least(FileParts)].payload # "")
    => LET f == request.parts[Least(FileParts)]
       IN  /\ outbound # <<>>
           /\ obs.filename = f.filename
           /\ obs.audio_file = f.payload
           /\ LET back == ScanParts(Split(outbound[1].data,
                              "--" \o ParseBoundary(outbound[1].content_type)), 1)
              IN  back.filename = f.filename /\ back.audio_file = f.payload

\* C2: the part selected as the audio part is always one whose field name is
\* exactly "file" (never "filename", "doc", ...).
C2_SelectsOnlyFileField ==
    (/\ WellFormedUpload
     /\ obs.bodySplit
     /\ obs.selected >= 1
     /\ obs.selected <= Len(request.parts))
    => request.parts[obs.selected].name = "file"

\* C3: when no part of the body is named "file" the answer is 400 "No audio file
\* provided" and nothing is sent to the transcription API.
C3_FieldNotFound ==
    (WellFormedUpload /\ FileParts = {})
    => /\ Len(response) = 1
       /\ ErrorIs(response[1], 400, "No audio file provided")
       /\ outbound = <<>>

\* C4 as stated: a Content-Type without multipart/form-data is answered 400, the
\* body unread.
C4_Original ==
    (TranscribePosted /\ ~Contains(request.content_type, "multipart/form-data"))
    => /\ response[1].status = 400
       /\ ~obs.bodyRead

\* C4, amended: with the API key configured, a Content-Type without
\* multipart/form-data is answered 400 "Content-Type must be multipart/form-data";
\* without the key the answer is 500 "AZURE_WHISPER_API_KEY is not configured";
\* either way the body is not read and nothing is sent on.
C4_UnsupportedContentType ==
    (TranscribePosted /\ ~Contains(request.content_type, "multipart/form-data"))
    => /\ Len(response) = 1
       /\ IF KeySet
          THEN ErrorIs(response[1], 400, "Content-Type must be multipart/form-data")
          ELSE ErrorIs(response[1], 500, "AZURE_WHISPER_API_KEY is not configured")
       /\ ~obs.bodyRead
       /\ outbound = <<>>

C4_Witness ==
    /\ TranscribePosted
    /\ KeySet
    /\ request.content_type = "application/json"
    /\ Len(request.parts) > 0
    /\ response[1].status = 400
    /\ ~obs.bodyRead

\* Whether a Content-Type has a boundary parameter: one of its parameters (after
\* the media type) starts with boundary= and has a value.
HasBoundaryParameter(content_type) ==
    LET params == Split(content_type, ";")
    IN  \E i \in 2..Len(params) :
            /\ StartsWith(Strip(params[i]), "boundary=")
            /\ Len(Strip(params[i])) > Len("boundary=")

\* C5: a multipart/form-data Content-Type with no boundary parameter, or an empty
\* one, is answered 400 "No boundary found in Content-Type" and the body is never
\* split.  (Stated with the API key configured and a valid Content-Length.)
C5_MissingBoundary ==
    (/\ TranscribePosted
     /\ KeySet
     /\ request.content_length = "exact"
     /\ IsMultipart(request.content_type)
     /\ ~HasBoundaryParameter(request.content_type))
    => /\ ErrorIs(response[1], 400, "No boundary found in Content-Type")
       /\ ~obs.bodySplit

\* The selected part has no blank line (CRLF CRLF) after its headers.
NoSeparatorSelected ==
    /\ TranscribePosted
    /\ obs.bodySplit
    /\ obs.selected >= 0
    /\ ~Contains(Pieces[obs.selected + 1], "\r\n\r\n")

C7_ParseFailuresAre400 ==
    (/\ TranscribePosted
     /\ KeySet
     /\ request.content_length = "exact"
     /\ outbound = <<>>)
    => /\ Len(response) = 1
       /\ response[1].status \in 400..499
       /\ "error" \in DOMAIN response[1].body

\* C8: when several parts match, the first one in body order is selected, and the
\* outcome is that of a body holding this part alone.
C8_FirstMatchWins ==
    (TranscribePosted /\ obs.bodySplit)
    => LET pieces   == Pieces
           matching == Matching(pieces)
           first    == pieces[Least(matching)]
           sep      == "--" \o obs.boundary
           alone    == TranscribeParse(env,
                           [request EXCEPT !.body = sep \o first \o sep \o "--\r\n"])
       IN  Cardinality(matching) >= 2 =>
           /\ obs.selected = Least(matching) - 1
           /\ obs.filename = alone.obs.filename
           /\ obs.audio_file = alone.obs.audio_file
           /\ alone.done <=> (outbound = <<>>)
           /\ alone.done => response = alone.responses
           /\ ~alone.done =>
                 \E rand \in RandomHex :
                    outbound = <<TranscribeForward(env, alone.obs.filename,
                                                   alone.obs.audio_file, rand)>>

C8_Witness ==
    /\ TranscribePosted
    /\ obs.bodySplit
    /\ outbound # <<>>
    /\ response[1].status = 200
    /\ LET pieces   == Pieces
           matching == Matching(pieces)
       IN  /\ Cardinality(matching) >= 2
           /\ ExtractPart(pieces[Greatest(matching)]).audio_file # obs.audio_file

\* C10: every response of a function handler (to OPTIONS, to a POST that succeeds,
\* to a POST that fails) carries Access-Control-Allow-Origin: * and
\* Access-Control-Allow-Headers, and every OPTIONS request is answered 200.
C10_CorsOnEveryResponse ==
    Responded
    => /\ Len(response) >= 1
       /\ \A i \in 1..Len(response) :
             /\ request.server = "function" => HasCors(response[i])
             /\ request.method = "OPTIONS" =>
                   HasCors(response[i]) /\ response[i].status = 200

C10_Witness ==
    /\ Responded
    /\ request.server = "function"
    /\ request.method = "POST"
    /\ response[1].status = 500
    /\ outbound # <<>>
    /\ HasCors(response[1])

\* C9: whatever the interleaving of concurrent requests, what a request has
\* extracted, forwarded and answered is what its own body and Content-Type give
\* when handled alone.
C9_RequestsDoNotInteract ==
    \A r \in Threads :
        pc[r] = "responded" =>
            LET p == TranscribeParse(env, request[r])
            IN  IF p.done
                THEN obs[r] = p.obs /\ response[r] = p.responses /\ outbound[r] = <<>>
                ELSE \E rand \in RandomHex, upstream \in WhisperOutcomes :
                        /\ obs[r] = [p.obs EXCEPT !.upstream = upstream]
                        /\ outbound[r] = <<TranscribeForward(env, p.obs.filename,
                                                             p.obs.audio_file, rand)>>
                        /\ response[r] = <<WhisperReply(upstream)>>

C9_Witness ==
    /\ pc[1] = "responded"
    /\ pc[2] = "forwarding"
    /\ outbound[1] # <<>>
    /\ obs[1].audio_file = "binarydata"
    /\ obs[2].audio_file = "abc"

\* s without one pair of surrounding double quotes.
TrimQuotes(s) ==
    IF Len(s) >= 2 /\ StartsWith(s, "\"") /\ Slice(s, Len(s) - 1, Len(s)) = "\""
    THEN Slice(s, 1, Len(s) - 1)
    ELSE s

\* The boundary a Content-Type declares: the whole value of its first boundary=
\* parameter, whitespace and quotes trimmed; None without such a parameter.
DeclaredBoundary(content_type) ==
    LET params == Split(content_type, ";")
        hits   == { i \in 2..Len(params) : StartsWith(Strip(params[i]), "boundary=") }
    IN  IF hits = {} THEN None
        ELSE LET p == Strip(params[Least(hits)])
             IN  TrimQuotes(Strip(Slice(p, Len("boundary="), Len(p))))

\* C11: when the Content-Type declares the sender's boundary, quoted or not, the
\* handler splits the body on "--" followed by that boundary.
C11_BoundaryToken ==
    (/\ TranscribePosted
     /\ KeySet
     /\ request.content_length = "exact"
     /\ IsMultipart(request.content_type)
     /\ DeclaredBoundary(request.content_type) = SenderBoundary)
    => /\ obs.bodySplit
       /\ obs.boundary = SenderBoundary

\* The piece of the body the handler selected (there is one: obs.selected >= 0).
SelectedPiece == Pieces[obs.selected + 1]

Positions(s, sub) ==
    { i \in 0..(Len(s) - Len(sub)) : SubSeq(s, i + 1, i + Len(sub)) = sub }

\* The selected part holds a blank line, and the bytes after the first one and
\* before the last CRLF of the part are at least one.
PayloadRangeValid ==
    LET blank == Positions(SelectedPiece, "\r\n\r\n")
        crlf  == Positions(SelectedPiece, "\r\n")
    IN  blank # {} /\ Greatest(crlf) > Least(blank) + 4

\* The bytes of the selected part after its first blank line and before its last CRLF.
PayloadBytes ==
    SubSeq(SelectedPiece, Least(Positions(SelectedPiece, "\r\n\r\n")) + 5,
           Greatest(Positions(SelectedPiece, "\r\n")))

C13_WitnessInverted ==
    /\ TranscribePosted
    /\ obs.bodySplit
    /\ obs.selected >= 0
    /\ Positions(SelectedPiece, "\r\n\r\n") # {}
    /\ Greatest(Positions(SelectedPiece, "\r\n")) < Least(Positions(SelectedPiece, "\r\n\r\n")) + 4
    /\ response[1].status = 400

FunctionPosted(fn) ==
    /\ Responded
    /\ request.server = "function"
    /\ request.fn = fn
    /\ request.method = "POST"

\* An analyze-insights POST whose body is a JSON object with non-empty insights.
InsightsPosted ==
    /\ FunctionPosted("analyze-insights")
    /\ request.content_length = "exact"
    /\ request.json.t = "object"
    /\ "insights" \in DOMAIN request.json.v
    /\ request.json.v.insights.truthy

\* The answer is 200 with the mock analysis of the request's insights.
MockAnswered ==
    /\ Len(response) = 1
    /\ response[1].status = 200
    /\ response[1].body = GenerateMockResponse(request.json.v.insights.dumps)

C15_FixedResponseShape ==
    (FunctionPosted("analyze-insights") /\ response[1].status = 200)
    => /\ DOMAIN response[1].body = {"severityScore", "severityTier", "advisingReport"}
       /\ (outbound = <<>> \/ obs.upstream \in {"http_error", "exception"})
             => <<response[1].body.severityScore, response[1].body.severityTier>>
                    \in { <<"0.3", "Low">>, <<"0.5", "Moderate">>, <<"0.8", "High">> }

\* The agent answered prose in an OpenAI-style reply: the report is the prose, the
\* score and tier are the defaults.
C15_Witness ==
    /\ FunctionPosted("analyze-insights")
    /\ response[1].status = 200
    /\ obs.upstream = "object"
    /\ response[1].body.advisingReport = ContentTexts.prose
    /\ response[1].body.severityScore = "0.5"
    /\ response[1].body.severityTier = "Moderate"

\* v, a value of the request's JSON body, is a JSON number.
IsJsonNumber(v) == v.t \in {"int", "float"}

\* The request body of a nearby-hospitals POST holds lat and lon, both numbers.
LatLonAreNumbers ==
    /\ request.content_length = "exact"
    /\ request.json.t = "object"
    /\ {"lat", "lon"} \subseteq DOMAIN request.json.v
    /\ IsJsonNumber(request.json.v.lat)
    /\ IsJsonNumber(request.json.v.lon)

\* The query the claim gives for the request's categoryFilter.
QueryClaimed ==
    LET category == IF "categoryFilter" \in DOMAIN request.json.v
                    THEN request.json.v.categoryFilter ELSE "all"
    IN  CASE category = "emergency" -> "emergency room hospital"
          [] category = "clinic"    -> "clinic doctor"
          [] OTHER                  -> "hospital"

\* C16: nearby-hospitals calls Azure Maps only with AZURE_MAPS_KEY set and lat and
\* lon both numbers, with the query of the categoryFilter, and otherwise answers
\* 500 / 400 without a call; transcribe calls Whisper only with the key set, a
\* multipart Content-Type, a boundary found and a non-empty payload extracted.
C16_OutboundOnlyAfterValidation ==
    /\ FunctionPosted("nearby-hospitals")
       => /\ outbound # <<>> =>
                /\ env.AZURE_MAPS_KEY # None
                /\ LatLonAreNumbers
                /\ outbound[1].data[1] = QueryClaimed
          /\ env.AZURE_MAPS_KEY = None =>
                outbound = <<>> /\ response[1].status = 500
          /\ (env.AZURE_MAPS_KEY # None /\ ~LatLonAreNumbers) =>
                outbound = <<>> /\ response[1].status \in {400, 500}
    /\ TranscribePosted
       => (outbound # <<>> =>
                /\ KeySet
                /\ IsMultipart(request.content_type)
                /\ obs.bodySplit
                /\ obs.boundary \notin {None, ""}
                /\ obs.audio_file \notin {None, ""})

\* The handling of the request has come to its end.
Handled == pc \in {"responded", "closed"}

\* C17: a POST for analyze-insights, nearby-hospitals or transcribe is never sent
\* two responses, and when its handling has ended it has been sent exactly one: a
\* status line and a JSON body.
C17_ExactlyOneResponse ==
    (request.method = "POST" /\ request.fn \in Functions)
    => /\ Len(response) <= 1
       /\ Handled =>
             /\ Len(response) = 1
             /\ response[1].status \in 100..599
             /\ "html" \notin DOMAIN response[1].body

====
